---- MODULE Spec2Model ----
(***************************************************************************)
(* Flats: the runtime types that emitted accessors work on (Allocator,     *)
(* Vector, Fixed_vector, Optional, generated variants, message envelopes). *)
(*                                                                         *)
(* A message is a run of bytes: the Allocator {next, max} sits directly    *)
(* before the flat, the flat's fixed part starts at address 0, the tail    *)
(* follows it.  All addresses below are relative to Allocator::flat().     *)
(* The flat used throughout is                                             *)
(*    V : variant { i:int32  c:char  s:string }                            *)
(*    T : flat { n:int32  s:string  v:vector<int32>  var:V }               *)
(***************************************************************************)
EXTENDS Integers, Sequences, FiniteSets, TLC

VARIABLES mem, fault, last, steps, fv, opt, msg, dst, ps

vars == <<mem, fault, last, steps, fv, opt, msg, dst, ps>>

\* the state outside the runtime objects of the first part of the module
rest == <<dst, ps>>

(***************************************************************************)
(* Bounds of the model.                                                    *)
(***************************************************************************)
TailSize == 6      \* bytes of tail requested when the message is placed
Slack == 12        \* bytes of caller memory tracked behind the message buffer
MaxSteps == 3      \* operations applied to one message
MaxStr == 2        \* longest C-style string argument
FvN == 4           \* the N of Fixed_vector<int32_t, N>
FvMaxSteps == 5    \* operations applied to one Fixed_vector
MaxBuf == 40       \* largest buffer size a message is placed in

(***************************************************************************)
(* Integer widths.  Offset and Size are short; allocate takes an int.      *)
(***************************************************************************)
TwoTo8 == 256
TwoTo16 == 65536
IntMax == 2147483647

To16(x) == LET m == x % TwoTo16 IN IF m >= TwoTo16 \div 2 THEN m - TwoTo16 ELSE m

\* a + b in int does not fit (signed overflow: undefined behaviour)
Overflows(a, b) == (b > 0 /\ a > IntMax - b) \/ (b < 0 /\ a < (-IntMax - 1) - b)

\* the two's-complement result a build produces when it simply adds
WrapAdd(a, b) ==
  IF ~Overflows(a, b) THEN a + b
  ELSE IF b > 0 THEN ((a - IntMax) - 1) + ((b - IntMax) - 1)
  ELSE ((a + IntMax) + 1) + ((b + IntMax) + 1)

\* (short)(a + b) for ints a, b, computed without leaving the int range
To16Sum(a, b) == To16(To16(a) + To16(b))

(***************************************************************************)
(* Sizes of the runtime types.                                             *)
(***************************************************************************)
SizeofOffset == 2
SizeofChar == 1
SizeofInt32 == 4
SizeofAllocator == SizeofOffset + SizeofOffset
SizeofVector == SizeofOffset + SizeofOffset
SizeofVariant == SizeofOffset + SizeofOffset   \* char utag, 1 byte padding, Offset pos

\* struct T { int32_t n; String s; Vector<int32_t> v; V var; }
OffN == 0
OffS == OffN + SizeofInt32
OffV == OffS + SizeofVector
OffVar == OffV + SizeofVector
FlatSize == OffVar + SizeofVariant

\* the allocator is always just before the flat
NextAddr == 0 - SizeofAllocator
MaxAddr == NextAddr + SizeofOffset

BufEnd == FlatSize + TailSize       \* first byte behind the message buffer
MemTop == BufEnd + Slack            \* first byte that is not tracked
Addr == NextAddr .. (MemTop - 1)
Byte == 0 .. (TwoTo8 - 1)

Min(a, b) == IF a < b THEN a ELSE b
Max(a, b) == IF a < b THEN b ELSE a

(***************************************************************************)
(* Bytes.  Values are stored little-endian, as the build lays them out.    *)
(***************************************************************************)
RECURSIVE Pow256(_)
Pow256(i) == IF i = 0 THEN 1 ELSE TwoTo8 * Pow256(i - 1)

\* byte i of the non-negative value v
ByteOf(v, i) == (v \div Pow256(i)) % TwoTo8

\* byte i of the short v
ByteOf16(v, i) == ByteOf(v % TwoTo16, i)

Rd8(m, a) == m[a]
Rd16(m, a) == To16(m[a] + TwoTo8 * m[a + 1])
RECURSIVE RdN(_, _, _)
RdN(m, a, n) == IF n = 0 THEN 0 ELSE m[a] + TwoTo8 * RdN(m, a + 1, n - 1)

\* the outcomes of writing len bytes, byte i being f[i], at address a.
\* Bytes inside the tracked memory are stored.  A write that leaves the
\* message buffer is undefined behaviour: it lands in the caller's memory
\* ("stray") or, outside the tracked memory, may also end the process.
WriteOutcomes(m, flt, a, len, f) ==
  LET hit(x) == x >= a /\ x - a < len
      m2 == [x \in Addr |-> IF hit(x) THEN f[x - a] ELSE m[x]]
      inBuf == len <= 0 \/ (a >= NextAddr /\ a + (len - 1) < BufEnd)
      inMem == len <= 0 \/ (a >= NextAddr /\ a + (len - 1) < MemTop)
  IN IF inBuf THEN {[mem |-> m2, fault |-> flt]}
     ELSE IF inMem THEN {[mem |-> m2, fault |-> "stray"]}
     ELSE {[mem |-> m2, fault |-> "stray"], [mem |-> m2, fault |-> "crash"]}

Wr16Outcomes(m, flt, a, v) ==
  WriteOutcomes(m, flt, a, SizeofOffset, [i \in 0 .. (SizeofOffset - 1) |-> ByteOf16(v, i)])

\* a store into the flat's fixed part or the allocator: always inside the buffer
Wr8(m, a, v) == [m EXCEPT ![a] = v % TwoTo8]
Wr16(m, a, v) == [m EXCEPT ![a] = ByteOf16(v, 0), ![a + 1] = ByteOf16(v, 1)]

\* one outcome of an operation: the memory it leaves, whether a write strayed,
\* the Error_code it raised ("none": it returned) and what it returned
Out(m, flt, e, r) == [mem |-> m, fault |-> flt, err |-> e, ret |-> r]

(***************************************************************************)
(* narrow, Extent                                                          *)
(***************************************************************************)
\* narrow(x): xx = static_cast<Offset>(x); expect x == size_t(xx).  Both sides
\* of the comparison are sign-extended, so every x in the short range passes.
narrow(x) == [val |-> To16(x), ok |-> To16(x) = x]

(***************************************************************************)
(* Allocator                                                               *)
(***************************************************************************)
AllocNext(m) == Rd16(m, NextAddr)
AllocMax(m) == Rd16(m, MaxAddr)

\* the test nx + sz <= max of allocate.  When nx + sz overflows int the
\* behaviour is undefined: the build either compares the wrapped sum or has
\* rearranged the comparison so that it decides as if there were no overflow.
AllocateFits(nx, sz, mx) ==
  IF Overflows(nx, sz) THEN {WrapAdd(nx, sz) <= mx, sz < 0}
  ELSE {nx + sz <= mx}

\* Offset allocate(int sz)
allocate(m, flt, sz) ==
  LET nx == AllocNext(m)
  IN { IF fits THEN Out(Wr16(m, NextAddr, To16Sum(nx, sz)), flt, "none", nx)
       ELSE Out(m, flt, "tail_too_big", 0) : fits \in AllocateFits(nx, sz, AllocMax(m)) }

\* Size cstring_copy(char* to, const char* from, int max): the characters of
\* str (a sequence without NUL) are copied one by one; the copy raises
\* cstring_overflow at the first character for which max has run out.
cstring_copy(m, flt, to, str, mx) ==
  LET room == Max(mx, 0)
      n == Min(Len(str), room)
      e == IF Len(str) > room THEN "cstring_overflow" ELSE "none"
  IN { Out(w.mem, w.fault, e, To16(n)) :
         w \in WriteOutcomes(m, flt, to, n, [i \in 0 .. (n - 1) |-> str[i + 1]]) }

\* Tail_ref place(const char* str)
place(m, flt, str) ==
  LET pos == AllocNext(m)
  IN { IF c.err = "none"
       THEN Out(Wr16(c.mem, NextAddr, To16(AllocNext(c.mem) + c.ret)), c.fault, "none",
                [sz |-> c.ret, pos |-> pos])
       ELSE Out(c.mem, c.fault, c.err, [sz |-> 0, pos |-> 0]) :
         c \in cstring_copy(m, flt, pos, str, AllocMax(m) - AllocNext(m)) }

(***************************************************************************)
(* Vector<T>: {Size sz; Offset pos}, pos relative to the vector itself.    *)
(* self is the address of the vector, esz is sizeof(T).                    *)
(***************************************************************************)
VecSz(m, self) == Rd16(m, self)
VecPos(m, self) == Rd16(m, self + SizeofOffset)
VecBegin(m, self) == self + VecPos(m, self)
VecEnd(m, self, esz) == VecBegin(m, self) + VecSz(m, self) * esz
SetSz(m, self, v) == Wr16(m, self, v)
SetPos(m, self, v) == Wr16(m, self + SizeofOffset, v)

\* Offset alloc(Allocator* a): allocate sz * sizeof(T) bytes, make pos relative to this
alloc(m, flt, self, esz) ==
  { IF a.err = "none" THEN Out(SetPos(a.mem, self, To16(a.ret - self)), a.fault, "none", 0)
    ELSE a : a \in allocate(m, flt, VecSz(m, self) * esz) }

\* the bytes of a list of elements of esz bytes each
ListBytes(lst, esz) ==
  [k \in 0 .. (Len(lst) * esz - 1) |-> ByteOf(lst[(k \div esz) + 1], k % esz)]

\* Vector(Allocator* a, Extent sz), the Extent built from the int x
VectorExtent(m, flt, self, esz, x) ==
  IF ~narrow(x).ok THEN {Out(m, flt, "narrowing", 0)}
  ELSE alloc(SetSz(m, self, narrow(x).val), flt, self, esz)

\* Vector(Allocator* a, std::initializer_list<X> lst)
VectorList(m, flt, self, esz, lst) ==
  IF ~narrow(Len(lst)).ok THEN {Out(m, flt, "narrowing", 0)}
  ELSE UNION { IF a.err # "none" THEN {a}
               ELSE { Out(w.mem, w.fault, "none", 0) :
                        w \in WriteOutcomes(a.mem, a.fault, VecBegin(a.mem, self),
                                            Len(lst) * esz, ListBytes(lst, esz)) } :
               a \in alloc(SetSz(m, self, narrow(Len(lst)).val), flt, self, esz) }

\* a std::string of s.len characters, character i being StrAt(s, i)
StrAt(s, i) == s.pat[(i % Len(s.pat)) + 1]

\* Vector(Allocator* a, const std::string& s): the size is cast, not narrowed
VectorString(m, flt, self, s) ==
  UNION { IF a.err # "none" THEN {a}
          ELSE { Out(w.mem, w.fault, "none", 0) :
                   w \in WriteOutcomes(a.mem, a.fault, VecBegin(a.mem, self), s.len,
                                       [i \in 0 .. (s.len - 1) |-> StrAt(s, i)]) } :
          a \in alloc(SetSz(m, self, To16(s.len)), flt, self, SizeofChar) }

\* Vector(Allocator* a, const char* s): sz and pos start from their default
\* member initializers, then the characters are placed in the tail
VectorCString(m, flt, self, str) ==
  { IF r.err # "none" THEN Out(r.mem, r.fault, r.err, 0)
    ELSE Out(SetSz(SetPos(r.mem, self, To16(r.ret.pos - self)), self, r.ret.sz),
             r.fault, "none", 0) :
    r \in place(SetPos(SetSz(m, self, 0), self, 0), flt, str) }

\* int can_push(Allocator* a): "number of spare slots".  The pointer
\* difference is divided as size_t and the quotient converted to int; for
\* sizeof(T) a power of two (1 and 4 here) that is the floor of the quotient,
\* which is not 0 for a negative difference.
can_push(m, self, esz) ==
  IF AllocNext(m) # VecEnd(m, self, esz) THEN 0
  ELSE (((AllocMax(m) - esz) - VecEnd(m, self, esz)) \div esz)

\* void push(Allocator* a)
VectorPush(m, flt, self, esz) ==
  IF can_push(m, self, esz) = 0 THEN {Out(m, flt, "fixed_array_overflow", 0)}
  ELSE { IF a.err # "none" THEN a
         ELSE Out(SetSz(a.mem, self, To16(VecSz(a.mem, self) + 1)), a.fault, "none", 0) :
         a \in allocate(m, flt, esz) }

\* void push(Allocator* a, T v): push(a); begin()[sz - 1] = v
VectorPushValue(m, flt, self, esz, v) ==
  UNION { IF p.err # "none" THEN {p}
          ELSE { Out(w.mem, w.fault, "none", 0) :
                   w \in WriteOutcomes(p.mem, p.fault,
                                       VecBegin(p.mem, self) + (VecSz(p.mem, self) - 1) * esz,
                                       esz, ListBytes(<<v>>, esz)) } :
          p \in VectorPush(m, flt, self, esz) }

\* the elements of the vector as its Span shows them
VecElems(m, self, esz) ==
  [k \in 1 .. VecSz(m, self) |-> RdN(m, VecBegin(m, self) + (k - 1) * esz, esz)]

(***************************************************************************)
(* The generated variant  V : variant { i:int32  c:char  s:string }        *)
(*    struct V { char utag = 0; Offset pos = 0; union U {...}; ... };      *)
(* U is only a type: the selected alternative lives at this + pos.         *)
(* self is the address of the variant, k the ordinal of the alternative.   *)
(***************************************************************************)
VarPosOff == SizeofOffset     \* offsetof(V, pos): utag, one byte of padding, pos
VarTag(m, self) == Rd8(m, self)
VarPos(m, self) == Rd16(m, self + VarPosOff)

\* continue with F after every outcome that returned normally; an exception
\* (or the end of the process) leaves the constructor at once
Then(outs, F(_)) ==
  UNION { IF o.err # "none" \/ o.fault = "crash" THEN {Out(o.mem, o.fault, o.err, 0)}
          ELSE F(o) : o \in outs }

\* a store through a computed pointer, as an outcome
Store16(m, flt, a, v) == { Out(w.mem, w.fault, "none", 0) : w \in Wr16Outcomes(m, flt, a, v) }

\* V() = default
VariantDefault(m, flt, self) == {Out(Wr16(Wr8(m, self, 0), self + VarPosOff, 0), flt, "none", 0)}

\* V(Allocator* allo, T arg) for a scalar alternative:
\*   :utag{k}, pos{allo->allocate(sizeof(T))} { ((U*)((Byte*)this + pos))->name = arg; }
VariantScalar(m, flt, self, k, esz, v) ==
  Then(allocate(Wr8(m, self, k), flt, esz), LAMBDA a :
    LET m2 == Wr16(a.mem, self + VarPosOff, a.ret)
    IN { Out(w.mem, w.fault, "none", 0) :
           w \in WriteOutcomes(m2, a.fault, self + VarPos(m2, self), esz, ListBytes(<<v>>, esz)) })

\* the part both string constructors share: utag, the String header allocated
\* in the tail, pos made relative to this; returns the address p of the header
VariantStringHeader(m, flt, self, k) ==
  Then(allocate(Wr8(m, self, k), flt, SizeofVector), LAMBDA a :
    LET m2 == Wr16(a.mem, self + VarPosOff, To16(a.ret - self))
    IN {Out(m2, a.fault, "none", self + VarPos(m2, self))})

\* V(Allocator* allo, const char* arg)
VariantCString(m, flt, self, k, str) ==
  Then(VariantStringHeader(m, flt, self, k), LAMBDA h :
    Then(place(h.mem, h.fault, str), LAMBDA r :
      Then(Store16(r.mem, r.fault, h.ret + SizeofOffset, SizeofVector), LAMBDA w :
        Store16(w.mem, w.fault, h.ret, r.ret.sz))))

\* V(Allocator* allo, const std::string& arg)
VariantString(m, flt, self, k, s) ==
  Then(VariantStringHeader(m, flt, self, k), LAMBDA h :
    Then(Store16(h.mem, h.fault, h.ret + SizeofOffset, SizeofVector), LAMBDA w :
      Then(Store16(w.mem, w.fault, h.ret, To16(s.len)), LAMBDA x :
        Then(allocate(x.mem, x.fault, s.len), LAMBDA b :
          { Out(c.mem, c.fault, "none", 0) :
              c \in WriteOutcomes(b.mem, b.fault, h.ret + SizeofVector, s.len,
                                  [i \in 0 .. (s.len - 1) |-> StrAt(s, i)]) }))))

\* reading len bytes at address a: bytes of the tracked memory are what was
\* stored there; a read outside it is undefined (the process ends, or some
\* value comes back)
Tracked(a, len) == len <= 0 \/ (a >= NextAddr /\ a + (len - 1) < MemTop)

\* T& name() of a scalar alternative
VariantGetScalar(m, flt, self, k, esz) ==
  IF VarTag(m, self) # k THEN {Out(m, flt, "variant_tag", 0)}
  ELSE IF Tracked(self + VarPos(m, self), esz)
       THEN {Out(m, flt, "none", RdN(m, self + VarPos(m, self), esz))}
       ELSE {Out(m, "crash", "none", 0), Out(m, flt, "none", 0), Out(m, flt, "none", TwoTo8 - 1)}

\* Span<char> name() of the string alternative: the characters of the String at this + pos
VariantGetString(m, flt, self, k) ==
  IF VarTag(m, self) # k THEN {Out(m, flt, "variant_tag", <<>>)}
  ELSE LET p == self + VarPos(m, self)
       IN IF Tracked(p, SizeofVector) /\ Tracked(VecBegin(m, p), VecSz(m, p))
          THEN {Out(m, flt, "none", VecElems(m, p, SizeofChar))}
          ELSE {Out(m, "crash", "none", <<>>), Out(m, flt, "none", <<>>)}

\* the alternatives of V: ordinal |-> size of a scalar, 0 for the string
VAlts == <<SizeofInt32, SizeofChar, 0>>

(***************************************************************************)
(* Arguments the operations are called with.                               *)
(***************************************************************************)
Chars == {104, 105}
RECURSIVE SeqsUpTo(_, _)
SeqsUpTo(S, n) ==
  IF n = 0 THEN {<<>>}
  ELSE LET shorter == SeqsUpTo(S, n - 1)
       IN shorter \cup {Append(q, x) : q \in {r \in shorter : Len(r) = n - 1}, x \in S}

CStrings == SeqsUpTo(Chars, MaxStr)
StdStrings == {[len |-> n, pat |-> <<104, 105, 106>>] : n \in (0 .. MaxStr) \cup {40000}}
AllocArgs == {-40000, 0 - SizeofInt32, 0, 1, SizeofInt32, TailSize, IntMax}
ExtentArgs == {-3, -1, 0, 1, TailSize - 1, TailSize, 70000}
IntValues == {7, 300}
IntLists == SeqsUpTo(IntValues, 2)

\* the non-negative int v converted to an element of esz bytes (char or int32)
AsElem(v, esz) == IF esz >= SizeofInt32 THEN v ELSE v % Pow256(esz)

\* the two vectors of the flat T, with the size of their elements
VecFields == {[self |-> OffS, esz |-> SizeofChar], [self |-> OffV, esz |-> SizeofInt32]}

(***************************************************************************)
(* The message after place_<m>(buf, buf_size, TailSize): the allocator     *)
(* covers the tail, fixed part and tail are zeroed.                        *)
(***************************************************************************)
Zeroed == [x \in Addr |-> 0]
FreshMessage == Wr16(Wr16(Zeroed, NextAddr, FlatSize), MaxAddr, FlatSize + TailSize)

\* last: the latest call (op, the field it was made on, its argument, the
\* Error_code raised, the value returned, the memory before it) and, in
\* prev, the call before it
\* the argument of a call: an int n, or the characters / elements str (n their
\* number; a std::string of n characters repeats str); alt is the ordinal of
\* the variant alternative a constructor of V selects
Arg(n, str) == [n |-> n, str |-> str, alt |-> 0, kind |-> "plain"]
VArg(alt, kind, n, str) == [n |-> n, str |-> str, alt |-> alt, kind |-> kind]
NoArg == Arg(0, <<>>)

\* the value a call returned: an int n, a Tail_ref {n, sz}, or a Span str
Ret(n, sz, str) == [n |-> n, sz |-> sz, str |-> str]
NoRet == Ret(0, 0, <<>>)
RetNone(r) == NoRet
RetInt(r) == Ret(r, 0, <<>>)
RetRef(r) == Ret(r.pos, r.sz, <<>>)
RetSpan(r) == Ret(0, Len(r), r)

NoCall == [err |-> "none", self |-> 0, op |-> "none", arg |-> NoArg]
NoOp == [err |-> "none", ret |-> NoRet, self |-> 0, esz |-> 0, op |-> "none", arg |-> NoArg,
         pre |-> FreshMessage, prev |-> NoCall]

\* fv: a Fixed_vector<int32_t, FvN> in the zeroed fixed part (used, val), the
\* latest call on it and the fields before that call
FvNone == [err |-> "none", lst |-> <<>>, op |-> "none", arg |-> 0]
FvZero == [val |-> [i \in 1 .. FvN |-> 0], used |-> 0]
FvInit == [last |-> FvNone, val |-> [i \in 1 .. FvN |-> 0], pre |-> FvZero, used |-> 0]

\* opt: an Optional<int32_t> in the zeroed fixed part (filled, val), the
\* latest call on it and the call before
OptNone == [err |-> "none", ret |-> 0, op |-> "none", arg |-> 0]
OptInit == [last |-> OptNone, val |-> 0, prev |-> OptNone, filled |-> FALSE]

\* msg: the latest placement of a message envelope in a buffer
MsgInit == [err |-> "none", op |-> "none", allo |-> FALSE, buffer_size |-> 0, tail_size |-> 0,
            next |-> 0, max |-> 0, overrun |-> FALSE]

Init ==
  /\ mem = FreshMessage
  /\ fault = "none"
  /\ last = NoOp
  /\ steps = 0
  /\ fv = FvInit
  /\ opt = OptInit
  /\ msg = MsgInit
  /\ dst = Zeroed
  /\ ps = <<>>

\* one call on the message: any of its outcomes becomes the next state
Call(op, self, esz, arg, outs, R(_)) ==
  /\ steps < MaxSteps
  /\ fault # "crash"
  /\ \E o \in outs :
       /\ mem' = o.mem
       /\ fault' = o.fault
       /\ last' = [err |-> o.err,
                   ret |-> IF o.err = "none" /\ o.fault # "crash" THEN R(o.ret) ELSE NoRet,
                   self |-> self, esz |-> esz, op |-> op, arg |-> arg, pre |-> mem,
                   prev |-> [err |-> last.err, self |-> last.self, op |-> last.op,
                             arg |-> last.arg]]
  /\ steps' = steps + 1
  /\ UNCHANGED <<fv, opt, msg>>
  /\ UNCHANGED rest

Allocate == \E n \in AllocArgs : Call("allocate", 0, 0, Arg(n, <<>>), allocate(mem, fault, n), RetInt)

Place == \E str \in CStrings : Call("place", 0, 0, Arg(Len(str), str), place(mem, fault, str), RetRef)

SetExtent ==
  \E f \in VecFields, x \in ExtentArgs :
    Call("extent", f.self, f.esz, Arg(x, <<>>), VectorExtent(mem, fault, f.self, f.esz, x),
         RetNone)

SetList ==
  \E lst \in IntLists :
    Call("list", OffV, SizeofInt32, Arg(Len(lst), lst),
         VectorList(mem, fault, OffV, SizeofInt32, lst), RetNone)

SetString ==
  \E s \in StdStrings :
    Call("string", OffS, SizeofChar, Arg(s.len, s.pat), VectorString(mem, fault, OffS, s), RetNone)

SetCString ==
  \E str \in CStrings :
    Call("cstring", OffS, SizeofChar, Arg(Len(str), str), VectorCString(mem, fault, OffS, str),
         RetNone)

Push ==
  \E f \in VecFields :
    Call("push", f.self, f.esz, NoArg, VectorPush(mem, fault, f.self, f.esz), RetNone)

PushValue ==
  \E f \in VecFields, v \in IntValues :
    Call("pushv", f.self, f.esz, Arg(AsElem(v, f.esz), <<>>),
         VectorPushValue(mem, fault, f.self, f.esz, AsElem(v, f.esz)), RetNone)

VarDefault == Call("vdefault", OffVar, 0, NoArg, VariantDefault(mem, fault, OffVar), RetNone)

SetVarScalar ==
  \E k \in {j \in DOMAIN VAlts : VAlts[j] > 0}, v \in IntValues :
    Call("vset", OffVar, VAlts[k], VArg(k, "scalar", AsElem(v, VAlts[k]), <<>>),
         VariantScalar(mem, fault, OffVar, k, VAlts[k], AsElem(v, VAlts[k])), RetNone)

SetVarCString ==
  \E k \in {j \in DOMAIN VAlts : VAlts[j] = 0}, str \in CStrings :
    Call("vset", OffVar, SizeofVector, VArg(k, "cstring", Len(str), str),
         VariantCString(mem, fault, OffVar, k, str), RetNone)

SetVarString ==
  \E k \in {j \in DOMAIN VAlts : VAlts[j] = 0}, s \in StdStrings :
    Call("vset", OffVar, SizeofVector, VArg(k, "string", s.len, s.pat),
         VariantString(mem, fault, OffVar, k, s), RetNone)

GetVar ==
  \/ \E k \in {j \in DOMAIN VAlts : VAlts[j] > 0} :
       Call("vget", OffVar, VAlts[k], Arg(k, <<>>),
            VariantGetScalar(mem, fault, OffVar, k, VAlts[k]), RetInt)
  \/ \E k \in {j \in DOMAIN VAlts : VAlts[j] = 0} :
       Call("vget", OffVar, VAlts[k], Arg(k, <<>>),
            VariantGetString(mem, fault, OffVar, k), RetSpan)

Next ==
  \/ SetList
  \/ SetCString
  \/ SetExtent
  \/ SetString
  \/ Allocate
  \/ Place
  \/ Push
  \/ PushValue
  \/ VarDefault
  \/ SetVarScalar
  \/ SetVarCString
  \/ SetVarString
  \/ GetVar

Spec == Init /\ [][Next]_vars

(***************************************************************************)
(* Allocator and Vector: the properties                                    *)
(***************************************************************************)
PreNext == AllocNext(last.pre)
PreMax == AllocMax(last.pre)

\* C1: every successful allocate(n) returns the value next had before the
\* call and advances next by exactly n; a call with next + n > max raises
\* tail_too_big; a failing call leaves next and max (the whole message)
\* unchanged.
C1_AllocateContract ==
  last.op = "allocate" =>
    /\ (last.arg.n > PreMax - PreNext) => last.err = "tail_too_big"
    /\ last.err = "none" =>
         /\ last.ret.n = PreNext
         /\ ~Overflows(PreNext, last.arg.n)
         /\ AllocNext(mem) = PreNext + last.arg.n
         /\ AllocMax(mem) = PreMax
    /\ last.err # "none" => mem = last.pre

\* C2: the tail allocator is bump-only: no operation on the message, with
\* any arguments it accepts, makes next smaller or larger than max.
C2_BumpOnly ==
  /\ AllocNext(mem) >= PreNext
  /\ AllocNext(mem) <= AllocMax(mem)

IsPush == last.op \in {"push", "pushv"}
PreIsLast == PreNext = VecEnd(last.pre, last.self, last.esz)
PreHasRoom == PreNext + last.esz <= PreMax

\* C3: a push on a vector that is the last object in the tail, with room
\* for one element before max, succeeds: sz grows by one and next by
\* exactly sizeof(T).
C3_PushSucceeds ==
  (IsPush /\ PreIsLast /\ PreHasRoom) =>
    /\ last.err = "none"
    /\ VecSz(mem, last.self) = VecSz(last.pre, last.self) + 1
    /\ AllocNext(mem) = PreNext + last.esz

\* C4: a push on a vector that is not the last object in the tail, or with
\* fewer than sizeof(T) bytes left before max, raises fixed_array_overflow
\* and changes neither sz nor next.
C4_PushRejected ==
  (IsPush /\ (~PreIsLast \/ ~PreHasRoom)) =>
    /\ last.err = "fixed_array_overflow"
    /\ VecSz(mem, last.self) = VecSz(last.pre, last.self)
    /\ AllocNext(mem) = PreNext

\* C9: setting the string field from a C-string of length L <= max - next
\* succeeds, place returns {old next, L}, next advances by exactly L, and
\* the getter's Span has size L and holds the L characters in order.
C9_CStringSetter ==
  /\ (last.op = "place" /\ Len(last.arg.str) <= PreMax - PreNext) =>
       /\ last.err = "none"
       /\ last.ret.n = PreNext /\ last.ret.sz = Len(last.arg.str)
       /\ AllocNext(mem) = PreNext + Len(last.arg.str)
       /\ Tracked(PreNext, Len(last.arg.str))
       /\ \A i \in 1 .. Len(last.arg.str) : Rd8(mem, PreNext + (i - 1)) = last.arg.str[i]
  /\ (last.op = "cstring" /\ Len(last.arg.str) <= PreMax - PreNext) =>
       /\ last.err = "none"
       /\ AllocNext(mem) = PreNext + Len(last.arg.str)
       /\ VecBegin(mem, OffS) = PreNext
       /\ VecSz(mem, OffS) = Len(last.arg.str)
       /\ Tracked(PreNext, Len(last.arg.str))
       /\ VecElems(mem, OffS, SizeofChar) = last.arg.str

(***************************************************************************)
(* Generated variants: the properties                                      *)
(***************************************************************************)
Returned == fault # "crash"

\* the value an alternative was set to, as its accessor shows it
SetValue(a) ==
  IF a.kind = "scalar" THEN RetInt(a.n)
  ELSE IF a.kind = "cstring" THEN RetSpan(a.str)
  ELSE Ret(0, a.n, [i \in 1 .. a.n |-> StrAt([len |-> a.n, pat |-> a.str], i - 1)])

\* C6: a default-constructed variant has tag() = 0; setting alternative i
\* writes utag = i; after that the accessor of every alternative j # i
\* raises variant_tag and the accessor of alternative i returns exactly the
\* value that was set.
C6_VariantRoundTrip ==
  /\ last.op = "vdefault" => VarTag(mem, OffVar) = 0
  /\ (last.op = "vset" /\ last.err = "none" /\ Returned) => VarTag(mem, OffVar) = last.arg.alt
  /\ (last.op = "vget" /\ last.prev.op = "vset" /\ last.prev.err = "none" /\ Returned) =>
       IF last.arg.n = last.prev.arg.alt
       THEN last.err = "none" /\ last.ret = SetValue(last.prev.arg)
       ELSE last.err = "variant_tag"

\* C7: when an alternative (scalar or string) is set, the offset returned
\* by allocate is made relative to the variant before it is stored in pos:
\* self + pos = flat() + that offset, and the alternative's bytes lie inside
\* the tail region just allocated.
C7_VariantPosRelative ==
  (last.op = "vset" /\ last.err = "none" /\ Returned) =>
    /\ OffVar + VarPos(mem, OffVar) = PreNext
    /\ OffVar + VarPos(mem, OffVar) + last.esz <= AllocNext(mem)

(***************************************************************************)
(* Fixed_vector<T, N>                                                      *)
(***************************************************************************)
\* place(&val[0], lst): the elements of lst copied to the first slots
FvPlace(val, lst) == [i \in 1 .. FvN |-> IF i <= Len(lst) THEN lst[i] ELSE val[i]]

FvOut(used, val, err) == [err |-> err, val |-> val, used |-> used]

\* Fixed_vector(): used = 0 by the member initializer
FixedVectorDefault(f) == FvOut(0, f.val, "none")

\* Fixed_vector(std::initializer_list<X> lst): the size is checked first
FixedVectorList(f, lst) ==
  IF Len(lst) <= FvN THEN FvOut(To16(Len(lst)), FvPlace(f.val, lst), "none")
  ELSE FvOut(0, f.val, "array_initializer")

\* Fixed_vector(Allocator* a, std::initializer_list<X> lst) : used{lst.size()}
\* the size is stored in used before it is checked
FixedVectorAllocList(f, lst) ==
  IF Len(lst) <= FvN THEN FvOut(To16(Len(lst)), FvPlace(f.val, lst), "none")
  ELSE FvOut(To16(Len(lst)), f.val, "array_initializer")

\* Fixed_vector(Extent ex), the Extent built from the int x
FixedVectorExtent(f, x) ==
  IF ~narrow(x).ok THEN FvOut(f.used, f.val, "narrowing")
  ELSE IF 0 <= narrow(x).val /\ narrow(x).val <= FvN THEN FvOut(narrow(x).val, f.val, "none")
  ELSE FvOut(0, f.val, "fixed_array_overflow")

\* void push()
FixedVectorPush(f) ==
  IF f.used < FvN THEN FvOut(To16(f.used + 1), f.val, "none")
  ELSE FvOut(f.used, f.val, "fixed_array_overflow")

\* void push(T v): val[used++] = v
FixedVectorPushValue(f, v) ==
  IF f.used < FvN
  THEN FvOut(To16(f.used + 1), [f.val EXCEPT ![f.used + 1] = v], "none")
  ELSE FvOut(f.used, f.val, "fixed_array_overflow")

FvExtentArgs == {-1, 0, 1, FvN, FvN + 1, 70000}
FvLists == {[i \in 1 .. n |-> 300 + i] : n \in {0, 1, FvN, FvN + 1}}

FvCall(op, arg, lst, o) ==
  /\ steps < FvMaxSteps
  /\ fv' = [last |-> [err |-> o.err, lst |-> lst, op |-> op, arg |-> arg], val |-> o.val,
            pre |-> [val |-> fv.val, used |-> fv.used], used |-> o.used]
  /\ steps' = steps + 1
  /\ UNCHANGED <<mem, fault, last, opt, msg>>
  /\ UNCHANGED rest

FvDefault == FvCall("default", 0, <<>>, FixedVectorDefault(fv))
FvExtent == \E x \in FvExtentArgs : FvCall("extent", x, <<>>, FixedVectorExtent(fv, x))
FvList == \E lst \in FvLists : FvCall("list", Len(lst), lst, FixedVectorList(fv, lst))
FvAllocList == \E lst \in FvLists : FvCall("alist", Len(lst), lst, FixedVectorAllocList(fv, lst))
FvPush == FvCall("push", 0, <<>>, FixedVectorPush(fv))
FvPushValue == \E v \in IntValues : FvCall("pushv", v, <<>>, FixedVectorPushValue(fv, v))

NextFixed ==
  \/ FvDefault
  \/ FvExtent
  \/ FvList
  \/ FvAllocList
  \/ FvPush
  \/ FvPushValue

SpecFixed == Init /\ [][NextFixed]_vars

FvIsPush == fv.last.op \in {"push", "pushv"}

\* C5: for Fixed_vector<T,N>, after any sequence of constructions (default,
\* Extent, initializer list) and pushes, 0 <= used <= N; a push with
\* used < N stores the value at slot used and increments used; a push with
\* used = N raises fixed_array_overflow and leaves used and the elements
\* unchanged.
C5_FixedVector ==
  /\ 0 <= fv.used /\ fv.used <= FvN
  /\ (FvIsPush /\ fv.pre.used < FvN) =>
       /\ fv.last.err = "none"
       /\ fv.used = fv.pre.used + 1
       /\ fv.val = IF fv.last.op = "pushv"
                   THEN [fv.pre.val EXCEPT ![fv.pre.used + 1] = fv.last.arg]
                   ELSE fv.pre.val
  /\ (FvIsPush /\ fv.pre.used = FvN) =>
       /\ fv.last.err = "fixed_array_overflow"
       /\ fv.used = fv.pre.used
       /\ fv.val = fv.pre.val

(***************************************************************************)
(* Optional<T>                                                             *)
(***************************************************************************)
OptOut(filled, val, err, ret) == [err |-> err, ret |-> ret, val |-> val, filled |-> filled]

\* Optional(Empty), Optional(Allocator*, Empty), Optional(): filled{false}
OptionalEmpty(o) == OptOut(FALSE, o.val, "none", 0)

\* Optional(Default), Optional(Allocator*, Default): filled{true}, val{}
OptionalDefault(o) == OptOut(TRUE, 0, "none", 0)

\* Optional(const T& x): filled{true}, val(x)
OptionalValue(o, x) == OptOut(TRUE, x, "none", 0)

\* void operator=(const T& x): val = x; filled = true;
OptionalAssign_NoFill(o, x) == OptOut(o.filled, x, "none", 0)
OptionalAssign(o, x) == OptOut(TRUE, x, "none", 0)

\* bool is_present() const
is_present(o) == o.filled

\* T& access(): expect(is_present(), optional_not_present); return val;
access(o) ==
  IF is_present(o) THEN OptOut(o.filled, o.val, "none", o.val)
  ELSE OptOut(o.filled, o.val, "optional_not_present", 0)

OptValues == {-1, 0, 7, 300}

OptCall(op, arg, o) ==
  /\ opt' = [last |-> [err |-> o.err, ret |-> o.ret, op |-> op, arg |-> arg], val |-> o.val,
             prev |-> opt.last, filled |-> o.filled]
  /\ UNCHANGED <<mem, fault, last, steps, fv, msg>>
  /\ UNCHANGED rest

OptEmpty == \E op \in {"Empty", "Optional", "AllocEmpty"} : OptCall(op, 0, OptionalEmpty(opt))
OptDefault == OptCall("Default", 0, OptionalDefault(opt))
OptValue == \E x \in OptValues : OptCall("value", x, OptionalValue(opt, x))
OptAssign == \E x \in OptValues : OptCall("assign", x, OptionalAssign(opt, x))
OptIsPresent ==
  OptCall("is_present", 0, OptOut(opt.filled, opt.val, "none", IF is_present(opt) THEN 1 ELSE 0))
OptAccess == OptCall("access", 0, access(opt))

NextOptional ==
  \/ OptEmpty
  \/ OptDefault
  \/ OptValue
  \/ OptAssign
  \/ OptIsPresent
  \/ OptAccess

SpecOptional == Init /\ [][NextOptional]_vars

OptMadeEmpty(c) == c.op \in {"Empty", "Optional", "AllocEmpty"}
OptMadeFull(c) == c.op \in {"value", "assign"}

\* C8: Optional<T> round trip: after construction from Empty (or default
\* construction) is_present() is false and access() raises
\* optional_not_present; after construction from a value v or assignment of
\* v, is_present() is true and access() returns v.
C8_OptionalRoundTrip ==
  /\ OptMadeEmpty(opt.last) => ~is_present(opt)
  /\ OptMadeFull(opt.last) => is_present(opt) /\ opt.val = opt.last.arg
  /\ (opt.last.op = "is_present" /\ OptMadeEmpty(opt.prev)) => opt.last.ret = 0
  /\ (opt.last.op = "is_present" /\ OptMadeFull(opt.prev)) => opt.last.ret = 1
  /\ (opt.last.op = "access" /\ OptMadeEmpty(opt.prev)) =>
       opt.last.err = "optional_not_present"
  /\ (opt.last.op = "access" /\ OptMadeFull(opt.prev)) =>
       opt.last.err = "none" /\ opt.last.ret = opt.prev.arg

\* an Optional is assigned 300 and then accessed: 300 comes back
C8_Witness ==
  /\ opt.last.op = "access"
  /\ opt.prev.op = "assign"
  /\ opt.prev.arg = 300
  /\ opt.last.err = "none"
  /\ opt.last.ret = 300

(***************************************************************************)
(* Message envelopes.  Two generated messages:                             *)
(*    m : message of T      (T needs an allocator)                         *)
(*    q : message of Pair   (Pair : flat { x:int32  y:int32 }, no tail)    *)
(***************************************************************************)
SizeofVersion == SizeofInt32                       \* struct Version { int v; }
SizeofMessageAllo == SizeofVersion + SizeofAllocator  \* sizeof(*this): v, alloc
SizeofMessagePlain == SizeofVersion                \* sizeof(*this): v
PairSize == SizeofInt32 + SizeofInt32              \* sizeof(Pair)

MsgOut(op, allo, b, t, nx, mx, err, written) ==
  [err |-> err, op |-> op, allo |-> allo, buffer_size |-> b, tail_size |-> t, next |-> nx,
   max |-> mx, overrun |-> written > b]

\* m(int buffer_size, int tail_size)
\*   :alloc{ size_of<Flat>(), size_of<Flat>() + tail_size }
\*   { expect(sizeof(*this) + alloc.max <= buffer_size, small_buffer); zero flat and tail }
MessageWriterAllo(b, t) ==
  LET mx == To16(FlatSize + t)
  IN IF SizeofMessageAllo + mx <= b
     THEN MsgOut("writer", TRUE, b, t, FlatSize, mx, "none",
                 SizeofMessageAllo + FlatSize + Max(t, 0))
     ELSE MsgOut("writer", TRUE, b, t, FlatSize, mx, "small_buffer", SizeofMessageAllo)

\* m(Reader, int buffer_size): alloc is what the buffer holds
\*   { expect(sizeof(*this) + alloc.max <= buffer_size, small_buffer); }
MessageReaderAllo(b, nx, mx) ==
  MsgOut("reader", TRUE, b, mx - FlatSize, nx, mx,
         IF SizeofMessageAllo + mx <= b THEN "none" ELSE "small_buffer", SizeofVersion)

\* q(int buffer_size, int) and q(Reader, int buffer_size)
\*   { expect(sizeof(*this) < buffer_size, small_buffer); }
MessagePlain(op, b) ==
  MsgOut(op, FALSE, b, 0, 0, 0,
         IF SizeofMessagePlain < b THEN "none" ELSE "small_buffer", SizeofVersion)

BufferSizes == 0 .. MaxBuf
TailSizes == {-1, 0, 1, TailSize, TwoTo16}

MsgCall(o) ==
  /\ msg' = o
  /\ UNCHANGED <<mem, fault, last, steps, fv, opt>>
  /\ UNCHANGED rest

PlaceWriter == \E b \in BufferSizes, t \in TailSizes : MsgCall(MessageWriterAllo(b, t))
PlaceReader ==
  \E b \in BufferSizes, t \in {0, TailSize} :
    MsgCall(MessageReaderAllo(b, FlatSize, FlatSize + t))
PlacePlainWriter == \E b \in BufferSizes : MsgCall(MessagePlain("writer", b))
PlacePlainReader == \E b \in BufferSizes : MsgCall(MessagePlain("reader", b))

NextMessage ==
  \/ PlacePlainWriter
  \/ PlacePlainReader
  \/ PlaceWriter
  \/ PlaceReader

SpecMessage == Init /\ [][NextMessage]_vars

\* the bytes of the whole message: envelope header, fixed part, requested tail
MessageBytes ==
  IF msg.allo THEN SizeofMessageAllo + FlatSize + Max(msg.tail_size, 0)
  ELSE SizeofMessagePlain + PairSize

\* C10: placing a message envelope (writer or reader) succeeds only if the
\* whole message (header, the flat's fixed part, the requested tail) fits in
\* buf_size bytes; otherwise small_buffer is raised; for flats that need an
\* allocator and for flats that do not.
C10_MessageFits ==
  msg.op # "none" =>
    /\ msg.err = "none" => MessageBytes <= msg.buffer_size
    /\ MessageBytes > msg.buffer_size => msg.err = "small_buffer"

\* C27: after a writer envelope has been constructed with a tail size that is
\* not negative, alloc.next is sizeof(Flat), alloc.max is sizeof(Flat) plus the
\* tail size, and the zeroing of the fixed part and the tail stayed inside the
\* buffer_size bytes that the small_buffer check accepted.
C27_WriterEnvelope ==
  (msg.op = "writer" /\ msg.allo /\ msg.err = "none" /\ msg.tail_size >= 0) =>
    /\ msg.next = FlatSize
    /\ msg.max = FlatSize + msg.tail_size
    /\ ~msg.overrun

(***************************************************************************)
(* clone: a bytewise copy of size() bytes of the message m (message of T)  *)
(* into the buffer p.  dst holds the bytes of p behind the clone's         *)
(* allocator, at the addresses they have relative to the clone's flat().   *)
(***************************************************************************)
\* int current_size() const { return sizeof(*this) + alloc.next; }
current_size(m) == SizeofMessageAllo + AllocNext(m)

\* int current_capacity() const { return alloc.max - alloc.next; }
current_capacity(m) == AllocMax(m) - AllocNext(m)

\* int size() const { return current_size() + current_capacity(); }
size(m) == current_size(m) + current_capacity(m)

\* what p held before the copy: any bytes
Garbage == {0, TwoTo8 - 1}

\* for (int i = 0; i < size(); ++i) p[i] = pt[i];  byte i of the envelope is
\* the byte at address i - sizeof(*this) of the flat
CloneBytes(m, g) == [a \in Addr |-> IF a + SizeofMessageAllo < size(m) THEN m[a] ELSE g]

\* M* clone(Byte* p) const.  Reading the source behind its buffer is
\* undefined: the copy goes on with what is there, or the process ends.
Clone ==
  /\ steps < MaxSteps
  /\ fault # "crash"
  /\ \E g \in Garbage : dst' = CloneBytes(mem, g)
  /\ fault' \in (IF size(mem) - SizeofMessageAllo > MemTop THEN {"stray", "crash"}
                 ELSE IF size(mem) - SizeofMessageAllo > BufEnd THEN {"stray"}
                 ELSE {fault})
  /\ last' = [err |-> "none", ret |-> RetInt(size(mem)), self |-> 0, esz |-> 0, op |-> "clone",
              arg |-> NoArg, pre |-> mem,
              prev |-> [err |-> last.err, self |-> last.self, op |-> last.op,
                        arg |-> last.arg]]
  /\ steps' = steps + 1
  /\ UNCHANGED <<mem, fv, opt, msg, ps>>

NextClone == Next \/ Clone

SpecClone == Init /\ [][NextClone]_vars

\* the object representation of a value of n bytes at address a
RdBytes(m, a, n) == [i \in 1 .. n |-> m[a + (i - 1)]]

\* what the getter of a vector field shows: its size and, when the elements
\* lie in memory the model tracks, the bytes of the elements
ReadVec(m, self, esz) ==
  IF VecSz(m, self) <= 0 THEN <<VecSz(m, self), <<>>, TRUE>>
  ELSE IF Tracked(VecBegin(m, self), VecSz(m, self) * esz)
       THEN <<VecSz(m, self), RdBytes(m, VecBegin(m, self), VecSz(m, self) * esz), TRUE>>
       ELSE <<VecSz(m, self), <<>>, FALSE>>

\* what the accessor of the selected alternative of the variant shows
ReadVar(m, self) ==
  LET k == VarTag(m, self)
      p == self + VarPos(m, self)
  IN IF k \notin DOMAIN VAlts THEN <<k, <<>>, TRUE>>
     ELSE IF VAlts[k] > 0
          THEN IF Tracked(p, VAlts[k]) THEN <<k, RdBytes(m, p, VAlts[k]), TRUE>>
               ELSE <<k, <<>>, FALSE>>
          ELSE IF Tracked(p, SizeofVector) THEN <<k, ReadVec(m, p, SizeofChar), TRUE>>
               ELSE <<k, <<>>, FALSE>>

\* every field of T read through a message whose bytes are m
ReadFields(m) ==
  <<RdBytes(m, OffN, SizeofInt32), ReadVec(m, OffS, SizeofChar), ReadVec(m, OffV, SizeofInt32),
    ReadVar(m, OffVar)>>

\* every read stayed in memory the model tracks
ReadDefined(r) ==
  /\ r[2][3] /\ r[3][3] /\ r[4][3]
  /\ (r[4][1] \in DOMAIN VAlts /\ VAlts[r[4][1]] = 0 /\ Len(r[4][2]) = 3) => r[4][2][3]

\* C11: clone copies exactly size() bytes starting at the envelope, size()
\* being header + fixed part + the whole tail up to max however much of the
\* tail is allocated; afterwards every field read through the clone returns
\* the same value as through the message.
C11_CloneEqual ==
  (last.op = "clone" /\ Returned) =>
    /\ last.ret.n = SizeofMessageAllo + FlatSize + TailSize
    /\ \A a \in Addr : a < FlatSize + TailSize => dst[a] = mem[a]
    /\ ReadDefined(ReadFields(mem))
    /\ ReadFields(dst) = ReadFields(mem)

(***************************************************************************)
(* The schema parser and the object map generator.                         *)
(*                                                                         *)
(* The input is a sequence of top-level declarations  n : flat { ... }  or *)
(* n : variant { ... }.  A body is a sequence of items: a field            *)
(* "name : type", or a marker "deprecate name" / "delete name".  A type is *)
(*    name | optional<T> | vector<T> | fixed_vector<T, N>                  *)
(* each with array suffixes [n].  An expression is the record              *)
(*    [head, of, n, dims]: the first name read, the type between < and >,  *)
(*    the N of a fixed_vector and the counts of the suffixes.              *)
(* The declarations  n : view of F,  n : view of F { names }  and          *)
(* n : message of F  have as body the words after the keyword: of F, the   *)
(* opening brace and the names.  The text ends with the word end or with   *)
(* the end of the input.                                                   *)
(***************************************************************************)
AlignofFlat == 8             \* alignof(Flat) of the parser's own struct Flat
SizeofInt64 == 8

\* names a schema declares, and the predefined types it uses
Names == {"A", "B"}
Presets == {"char", "int32", "int64", "string"}
AllNames == Names \cup Presets

\* a Type.  A Type of the symbol table is referred to by its name ("entry":
\* the pointer to it); its id, size and align are the entry's.  A Type made
\* by new Type{id, t} (optional, vector, varray, array) holds them itself.
Entry(n) == [t |-> <<>>, size |-> 0, id |-> "entry", name |-> n, count |-> 1, align |-> 0]
NewType(id, inner, count, sz) ==
  [t |-> <<inner>>, size |-> sz, id |-> id, name |-> "", count |-> count, align |-> AlignofFlat]

TId(tbl, ty) == IF ty.id = "entry" THEN tbl[ty.name].id ELSE ty.id
TSize(tbl, ty) == IF ty.id = "entry" THEN tbl[ty.name].size ELSE ty.size
TAlign(tbl, ty) == IF ty.id = "entry" THEN tbl[ty.name].align ELSE ty.align

\* an entry of the symbol table: the Type (id, size, align), which Type object
\* it is (obj), and used_as_optional of the Flat it points to
TableEntry(id, sz, al, obj) ==
  [size |-> sz, id |-> id, align |-> al, obj |-> obj, used_as_optional |-> FALSE]
Absent == TableEntry("absent", 0, 0, 0)

\* Table symbol_table{predefined_types}
predefined_types ==
  [n \in Presets |->
     IF n = "char" THEN TableEntry("char8", SizeofChar, SizeofChar, 0)
     ELSE IF n = "int32" THEN TableEntry("int32", SizeofInt32, SizeofInt32, 0)
     ELSE IF n = "int64" THEN TableEntry("int64", SizeofInt64, SizeofInt64, 0)
     ELSE TableEntry("string", 4 * SizeofInt64, SizeofInt64, 0)]
symbol_table == [n \in AllNames |-> IF n \in Presets THEN predefined_types[n] ELSE Absent]

\* Type* find(const string& n)
find(tbl, n) == tbl[n].id # "absent"

\* the Type objects made so far by insert
Objects(tbl) == {tbl[n].obj : n \in Names}

\* Type* insert(Flat* flt) with flt = new Flat{Type_id::undefined, n}
insert(tbl, n) ==
  [tbl EXCEPT ![n] = TableEntry("undefined", 0, AlignofFlat,
                                1 + Cardinality(Objects(tbl) \ {0}))]

\* what a step of the parser hands back: the symbol table, the Type (none
\* after an error) and the error
Got(tbl, ty, err) == [err |-> err, tbl |-> tbl, ty |-> ty]

\* F applied to the value of v, which is computed once
Let(v, F(_)) == CHOOSE out \in {F(x) : x \in {v}} : TRUE

\* get_type: s is neither optional, vector nor fixed_vector
lookup(id, s, tbl) ==
  IF find(tbl, s)
  THEN IF tbl[s].id = "undefined" /\ id = "flat"
       THEN Got(tbl, <<>>, "recursive definition of flat")
       ELSE Got(tbl, <<Entry(s)>>, "none")
  ELSE IF id = "flat" THEN Got(tbl, <<>>, "is undefined type in flat")
       ELSE Got(insert(tbl, s), <<Entry(s)>>, "none")

\* get_type: switch (t->id) setting t->size
SizeSwitch(tbl, ty) ==
  LET k == TId(tbl, ty)
  IN IF k \in {"vector", "string"}
     THEN IF ty.id = "entry"
          THEN Got([tbl EXCEPT ![ty.name].size = SizeofVector], <<ty>>, "none")
          ELSE Got(tbl, <<[ty EXCEPT !.size = SizeofVector]>>, "none")
     ELSE IF k = "optional"
          THEN Got(tbl, <<[ty EXCEPT !.size = TAlign(tbl, ty.t[1]) + TSize(tbl, ty.t[1])]>>,
                   "none")
     ELSE IF k = "varray"
          THEN Got(tbl, <<[ty EXCEPT !.size = TAlign(tbl, ty.t[1])
                                               + ty.count * TSize(tbl, ty.t[1])]>>, "none")
     ELSE Got(tbl, <<ty>>, "none")

\* get_type: while (is_char('[')) { t = new Type{array, t}; t->count = get_count(); ... }
\* (count is a short)
RECURSIVE Arrays(_, _, _)
Arrays(tbl, ty, dims) ==
  IF dims = <<>> THEN Got(tbl, <<ty>>, "none")
  ELSE IF Head(dims) < 1 THEN Got(tbl, <<>>, "non-positive array count")
  ELSE Let(NewType("array", ty, To16(Head(dims)), To16(Head(dims)) * TSize(tbl, ty)),
           LAMBDA a : Arrays(tbl, a, Tail(dims)))

RECURSIVE get_type(_, _, _)
RECURSIVE get_opt_or_vec(_, _, _)
RECURSIVE get_varray(_, _, _)

\* Type* get_opt_or_vec(Type_id id): <T>
get_opt_or_vec(id, e, tbl) ==
  Let(get_type(id, e, tbl),
      LAMBDA r :
        IF r.err # "none" THEN r
        ELSE LET t == r.ty[1]
                 k == TId(r.tbl, t)
             IN IF id = "optional" /\ k \in {"optional", "variant", "vector", "string"}
                THEN r
                ELSE IF id = "vector" /\ k = "variant"
                     THEN Got(r.tbl, <<>>, "vector of variant is not supported")
                ELSE Got(IF id = "optional" /\ k = "flat"
                         THEN [r.tbl EXCEPT ![t.name].used_as_optional = TRUE]
                         ELSE r.tbl,
                         <<NewType(id, t, 1, 0)>>, "none"))

\* Type* get_varray(): <T, N>
get_varray(e, sz, tbl) ==
  Let(get_type("varray", e, tbl),
      LAMBDA r :
        IF r.err # "none" THEN r
        ELSE IF sz < 1 THEN Got(r.tbl, <<>>, "fixed_array needs positive number of elements")
        ELSE IF TId(r.tbl, r.ty[1]) = "variant"
             THEN Got(r.tbl, <<>>, "fixed_vector of variant is not supported")
        ELSE Got(r.tbl, <<NewType("varray", r.ty[1], To16(sz), 0)>>, "none"))

\* Type* get_type(Type_id id)
get_type(id, e, tbl) ==
  Let(IF e.head = "optional" THEN get_opt_or_vec("optional", e.of[1], tbl)
      ELSE IF e.head = "vector" THEN get_opt_or_vec("vector", e.of[1], tbl)
      ELSE IF e.head = "fixed_vector" THEN get_varray(e.of[1], e.n, tbl)
      ELSE lookup(id, e.head, tbl),
      LAMBDA r :
        IF r.err # "none" THEN r
        ELSE Let(SizeSwitch(r.tbl, r.ty[1]), LAMBDA s : Arrays(s.tbl, s.ty[1], e.dims)))

\* type expressions
Named(n) == [n |-> 0, dims |-> <<>>, head |-> n, of |-> <<>>]
Of(h, e) == [n |-> 0, dims |-> <<>>, head |-> h, of |-> <<e>>]
FixedOf(e, k) == [n |-> k, dims |-> <<>>, head |-> "fixed_vector", of |-> <<e>>]
Dim(e, k) == [e EXCEPT !.dims = Append(e.dims, k)]

\* optional<vector<int32[10]>[20]>[30]
Sicko == Dim(Of("optional", Dim(Of("vector", Dim(Named("int32"), 10)), 20)), 30)

\* struct Field; typ is <<>> for nullptr
Field(n, typ, index, status) ==
  [size |-> 0, name |-> n, typ |-> typ, index |-> index, status |-> status, offset |-> 0]

\* an item of a body: a field "name : type", a marker "deprecate name" /
\* "delete name", or a word of a view or message ("of name", "{", "member name")
Item(op, n, e) == [op |-> op, name |-> n, ty |-> e]
FieldItem(n, e) == Item("field", n, e)
Marker(op, n) == Item(op, n, Named(""))

\* Field* Flat::find(const std::string& s): the place of the first field named s, 0 for nullptr
FindField(fields, n) ==
  IF \E i \in 1 .. Len(fields) : fields[i].name = n
  THEN CHOOSE i \in 1 .. Len(fields) :
         /\ fields[i].name = n
         /\ \A j \in 1 .. i - 1 : fields[j].name # n
  ELSE 0

\* what get_field and get_flat hand back: the symbol table, the field list and the error
GotFields(tbl, fields, err) == [err |-> err, tbl |-> tbl, fields |-> fields]

\* Field modify_field(Flat* flt, Status s), followed by get_flat's push_back
modify_field(fields, s, n, tbl) ==
  LET e == FindField(fields, n)
  IN IF e = 0
     THEN GotFields(tbl, fields,
                    IF s = "deprecated" THEN "deprecated type not found"
                    ELSE "deleted type not found")
     ELSE GotFields(tbl,
                    Append([fields EXCEPT ![e].status = s],
                           Field(n, <<>>, Len(fields),
                                 IF s = "deprecating" THEN "deprecated" ELSE "deleting")),
                    "none")

\* Field get_field(Flat* flt, Type_id id), followed by get_flat's
\* fld.index = flt->no_of_fields(); flt->push_back(fld)
get_field(fields, id, it, tbl) ==
  IF it.op = "deprecate" THEN modify_field(fields, "deprecated", it.name, tbl)
  ELSE IF it.op = "delete" THEN modify_field(fields, "deleted", it.name, tbl)
  ELSE IF FindField(fields, it.name) # 0 THEN GotFields(tbl, fields, "member defined twice")
  ELSE Let(get_type(id, it.ty, tbl),
           LAMBDA r :
             IF r.err # "none" THEN GotFields(r.tbl, fields, r.err)
             ELSE GotFields(r.tbl,
                            Append(fields, Field(it.name, r.ty, Len(fields), "ordinary")),
                            "none"))

\* owner<Flat*> get_flat(const string& n, Type_id id): the loop over the members
RECURSIVE get_flat(_, _, _, _)
get_flat(fields, id, body, tbl) ==
  IF body = <<>> THEN GotFields(tbl, fields, "none")
  ELSE Let(get_field(fields, id, Head(body), tbl),
           LAMBDA r : IF r.err # "none" THEN r
                      ELSE get_flat(r.fields, id, Tail(body), r.tbl))

\* a top-level declaration  name : id body, with id one of flat, variant,
\* view and message
Decl(n, id, body) == [id |-> id, name |-> n, body |-> body]

\* struct Flat: id, name, fields and t, the name of the symbol table's Type
\* that flt->t points to ("" for nullptr)
Flat(id, n, fields, t) == [t |-> t, id |-> id, name |-> n, fields |-> fields]

\* t->fl of the symbol table's Type named n: the Flat defined with that name
FlatOf(flats, n) == flats[CHOOSE k \in 1 .. Len(flats) : flats[k].name = n]

\* what the parser of a declaration hands back: the symbol table, the Flat
\* (none after an error) and the error
GotFlat(tbl, flt, err) == [flt |-> flt, err |-> err, tbl |-> tbl]

\* get_view: while (!is_char('}')) over the names between the braces, with
\* under the fields of the flat the view is a view of
RECURSIVE ViewFields(_, _, _)
ViewFields(fields, names, under) ==
  IF names = <<>> THEN GotFields(<<>>, fields, "none")
  ELSE LET fld == FindField(under, Head(names).name)
       IN IF fld = 0 THEN GotFields(<<>>, fields, "is not a member of")
          ELSE ViewFields(Append(fields, Field(Head(names).name, under[fld].typ, 0, "ordinary")),
                          Tail(names), under)

\* Flat* get_view(const string& n): body is  of fn  for a complete view and
\* of fn { names }  for a partial one
get_view(n, body, tbl, flats) ==
  LET fn == body[1].name
  IN IF ~find(tbl, fn) \/ tbl[fn].id # "flat"
     THEN GotFlat(tbl, <<>>, "flat definition not found")
     ELSE IF Len(body) = 1 THEN GotFlat(tbl, <<Flat("view", n, <<>>, fn)>>, "none")
     ELSE Let(ViewFields(<<>>, Tail(Tail(body)), FlatOf(flats, fn).fields),
              LAMBDA r : IF r.err # "none" THEN GotFlat(tbl, <<>>, r.err)
                         ELSE GotFlat(tbl, <<Flat("view", n, r.fields, "")>>, "none"))

\* Flat* get_message(const string& n): body is  of fn
get_message(n, body, tbl) ==
  LET fn == body[1].name
  IN IF ~find(tbl, fn) \/ tbl[fn].id # "flat"
     THEN GotFlat(tbl, <<>>, "flat definition not found")
     ELSE GotFlat(tbl, <<Flat("message", n, <<>>, fn)>>, "none")

\* parse(): the parser selected by the word after the colon
get_declaration(d, tbl, flats) ==
  IF d.id = "view" THEN get_view(d.name, d.body, tbl, flats)
  ELSE IF d.id = "message" THEN get_message(d.name, d.body, tbl)
  ELSE Let(get_flat(<<>>, d.id, d.body, tbl),
           LAMBDA r : IF r.err # "none" THEN GotFlat(r.tbl, <<>>, r.err)
                      ELSE GotFlat(r.tbl, <<Flat(d.id, d.name, r.fields, "")>>, "none"))

\* what follows a declaration in the input: another declaration, the word
\* end, or nothing but whitespace up to the end of the input
Follows == {"more", "end", "eof"}

\* char get_char(): the first character that is not whitespace, or
\* error("unexpected end of input")
get_char(after) == IF after = "eof" THEN "unexpected end of input" ELSE "none"

\* void eat_terminator(): if (!is_char(';')) put_back(); ...  -- is_char
\* calls get_char before it compares
eat_terminator(after) == get_char(after)

\* what the parser holds after some declarations
Parsed(tbl, flats, err) == [err |-> err, flats |-> flats, table |-> tbl]

\* a parser that puts a new Type into the table for the definition
Define_NewType(tbl, n, id) ==
  [tbl EXCEPT ![n] = TableEntry(id, 0, AlignofFlat, 1 + Cardinality(Objects(tbl) \ {0}))]

\* parse(): delete t->fl; t->id = flt->id; t->fl = flt  -- the entry's Type
\* object stays, its Flat is the new one
Define(tbl, n, id) == [tbl EXCEPT ![n].id = id, ![n].used_as_optional = FALSE]

\* one turn of parse()'s loop: a declaration d, followed by after, read with
\* the parser holding p
parse(p, d, after) ==
  IF find(p.table, d.name) /\ p.table[d.name].id # "undefined"
  THEN Parsed(p.table, p.flats, "defined twice")
  ELSE Let(IF find(p.table, d.name) THEN p.table ELSE insert(p.table, d.name),
           LAMBDA t :
             Let(get_declaration(d, t, p.flats),
                 LAMBDA r :
                   IF r.err # "none" THEN Parsed(r.tbl, p.flats, r.err)
                   ELSE IF eat_terminator(after) # "none"
                        THEN Parsed(r.tbl, p.flats, eat_terminator(after))
                   ELSE Parsed(Define(r.tbl, d.name, d.id),
                               Append(p.flats,
                                      IF d.id # "message" THEN [r.flt[1] EXCEPT !.t = d.name]
                                      ELSE r.flt[1]),
                               "none")))

\* void check_for_undefined()
check_for_undefined(tbl) ==
  IF \E n \in Names : tbl[n].id = "undefined" THEN "undefined variants or flats" ELSE "none"

\* struct Field_entry (object_map.h)
Field_entry(index, offset, sz, type_id, count, n) ==
  [size |-> sz, name |-> n, count |-> count, index |-> index, offset |-> offset,
   type_id |-> type_id]

\* a generator that numbers the entries as it makes them
EntryIndex_Count(index, count) == count

\* make_object_map: the index of the entry of the field at place `index`
\* that is the `count`-th entry of the map
EntryIndex(index, count) == index

\* what make_object_map has after some fields: the fields with their sizes and
\* offsets, the entries of the map and the local position
Mapped(fields, entries, position) ==
  [fields |-> fields, entries |-> entries, position |-> position]

\* make_object_map: for (Field& fld : flt.fields), from the field at place index + 1
RECURSIVE MapFields(_, _, _, _, _, _)
MapFields(m, index, id, is_packed, tbl, position) ==
  IF index >= Len(m.fields) THEN Mapped(m.fields, m.entries, position)
  ELSE LET fld == m.fields[index + 1]
       IN IF fld.status \in {"deleting", "deprecating", "deleted"}
          THEN MapFields(m, index + 1, id, is_packed, tbl, position)
          ELSE LET tp == fld.typ[1]
                   sz == TSize(tbl, tp)
                   al == TAlign(tbl, tp)
                   p1 == IF ~is_packed /\ position % al # 0
                         THEN position + (al - (position % al)) ELSE position
                   p2 == IF id # "variant" THEN p1 + sz ELSE p1
               IN Let(<<Mapped([m.fields EXCEPT ![index + 1].size = sz,
                                                 ![index + 1].offset = position],
                                Append(m.entries,
                                       Field_entry(EntryIndex(index, Len(m.entries)), position,
                                                   sz, TId(tbl, tp), tp.count, fld.name)),
                                position),
                         p2>>,
                      LAMBDA n : MapFields(n[1], index + 1, id, is_packed, tbl, n[2]))

\* make_object_map: if (!packed) position += (alignof(Flat) - position % alignof(Flat))
FixedSize(position, is_packed) ==
  IF is_packed THEN position ELSE position + (AlignofFlat - (position % AlignofFlat))

\* Object_map make_object_map(Flat& flt, bool packed): the fields, the entries
\* and the position after the last field
make_object_map(flt, is_packed, tbl) ==
  MapFields(Mapped(flt.fields, <<>>, 0), 0, flt.id, is_packed, tbl, 0)

\* the commands of main's map actions
Acts == {"direct", "packed", "view", "packed_view"}

\* main: bool packed = [act] { switch (act) { default: return false; }; }()
packed(act) == FALSE

\* bool needs_allocator(const Type* t) and bool needs_allocator(const Flat& flt),
\* the latter from the field at place i on.  ty is <<>> for nullptr.  active
\* holds the flats whose call is not finished: a call for one of them is the
\* same call again, and the recursion has no end ("no return").
RECURSIVE needs_allocator(_, _, _, _)
RECURSIVE needs_allocator_flat(_, _, _, _, _)
needs_allocator(ty, tbl, flats, active) ==
  IF ty = <<>> THEN "false"
  ELSE LET t == ty[1]
           k == TId(tbl, t)
       IN IF k \in {"flat", "variant"}
          THEN IF t.name \in active THEN "no return"
               ELSE needs_allocator_flat(FlatOf(flats, t.name).fields, 1, tbl, flats,
                                         active \cup {t.name})
          ELSE IF k \in {"optional", "array"} THEN needs_allocator(t.t, tbl, flats, active)
          ELSE IF k \in {"string", "vector"} THEN "true"
          ELSE "false"
needs_allocator_flat(fields, i, tbl, flats, active) ==
  IF i > Len(fields) THEN "false"
  ELSE Let(needs_allocator(fields[i].typ, tbl, flats, active),
           LAMBDA r : IF r = "false"
                      THEN needs_allocator_flat(fields, i + 1, tbl, flats, active)
                      ELSE r)

\* the first of the results that is not "false"
Either(a, b) == IF a # "false" THEN a ELSE b

\* as_string_field_accessor: does the getter of field m name allo
accessor_allo(m, tbl, flats) ==
  LET t == m.typ[1]
      k == TId(tbl, t)
  IN IF k = "flat"
     THEN needs_allocator_flat(FlatOf(flats, t.name).fields, 1, tbl, flats, {t.name})
     ELSE IF k = "variant" THEN needs_allocator(m.typ, tbl, flats, {})
     ELSE IF k \in {"vector", "array", "varray", "optional"}
          THEN IF TId(tbl, t.t[1]) = "flat" THEN "true" ELSE "false"
     ELSE "false"

\* as_string_field_constructor, and for an optional the Empty and Default
\* constructors, for a vector or string the size constructors: do the setters
\* of field m name allo
constructor_allo(m, tbl, flats) ==
  LET t == m.typ[1]
      k == TId(tbl, t)
      inner == IF t.t = <<>> THEN "" ELSE TId(tbl, t.t[1])
      as_string_allo == needs_allocator(m.typ, tbl, flats, {})
  IN IF k = "flat" THEN "false"
     ELSE IF k = "optional" THEN as_string_allo
     ELSE IF k \in {"string", "vector"} THEN "true"
     ELSE IF k = "array" THEN IF inner = "flat" THEN "false" ELSE as_string_allo
     ELSE IF k = "varray" THEN IF inner = "string" THEN "true" ELSE as_string_allo
     ELSE IF k = "variant"
          THEN IF \E i \in 1 .. Len(FlatOf(flats, t.name).fields) :
                    LET mm == FlatOf(flats, t.name).fields[i]
                    IN mm.typ # <<>> /\ TId(tbl, mm.typ[1]) \notin {"flat", "variant"}
               THEN "true" ELSE "false"
     ELSE as_string_allo

\* the fields of flt whose accessors the emitters print
Printed(flt) ==
  {i \in 1 .. Len(flt.fields) : flt.fields[i].status \notin {"deleting", "deleted"}}

\* what the emitters did for one Flat: allo, whether the accessor declares
\* the allo member (the result of needs_allocator); mentions, the fields with
\* a getter or setter that names allo; getters, the name and the slot of the
\* offset table of every getter of the view; reads, the places of the fields
\* whose Type was read; fault, why the emitter did not finish
Emitted(allo, mentions, getters, reads, why) ==
  [fault |-> why, allo |-> allo, mentions |-> mentions, getters |-> getters, reads |-> reads]

\* the fault of reading the Type of a field that has none
NullRead(flt, reads) ==
  IF \E i \in reads : flt.fields[i].typ = <<>> THEN "null Type read" ELSE "none"

\* print_struct followed by print_direct
print_direct(flt, tbl, flats) ==
  LET all == 1 .. Len(flt.fields)
  IN IF flt.id = "message"
     THEN Let(needs_allocator_flat(FlatOf(flats, flt.t).fields, 1, tbl, flats, {flt.t}),
              LAMBDA a : Emitted(a, {}, <<>>, {}, IF a = "no return" THEN a ELSE "none"))
     ELSE IF NullRead(flt, all) # "none"
          THEN Emitted("false", {}, <<>>, all, NullRead(flt, all))
     ELSE Let(IF flt.id = "variant"
              THEN needs_allocator(<<Entry(flt.t)>>, tbl, flats, {})
              ELSE needs_allocator_flat(flt.fields, 1, tbl, flats, {flt.name}),
              LAMBDA a :
                IF a = "no return" \/ flt.id = "variant" THEN
                  Emitted(a, {}, <<>>, all, IF a = "no return" THEN a ELSE "none")
                ELSE
                  Let({<<i, Either(accessor_allo(flt.fields[i], tbl, flats),
                                   constructor_allo(flt.fields[i], tbl, flats))>> :
                         i \in Printed(flt)},
                      LAMBDA ms :
                        Emitted(a, {flt.fields[x[1]].name : x \in {y \in ms : y[2] = "true"}},
                                <<>>, all,
                                IF \E y \in ms : y[2] = "no return" THEN "no return"
                                ELSE "none")))

\* print_view: the getters, in the order of the fields
RECURSIVE ViewGetters(_, _)
ViewGetters(fields, i) ==
  IF i > Len(fields) THEN <<>>
  ELSE IF fields[i].status \in {"deleting", "deleted"} THEN ViewGetters(fields, i + 1)
  ELSE <<[name |-> fields[i].name, index |-> fields[i].index]>> \o ViewGetters(fields, i + 1)

\* void print_view(const Flat& flt, std::ostream& out)
print_view(flt) ==
  IF flt.id = "variant" THEN Emitted("false", {}, <<>>, {}, "none")
  ELSE Emitted("false", {}, ViewGetters(flt.fields, 1), Printed(flt),
               NullRead(flt, Printed(flt)))

\* main: switch (act) after make_object_map
emit(flt, act, tbl, flats) ==
  IF act \in {"direct", "packed"} THEN print_direct(flt, tbl, flats)
  ELSE print_view(flt)

\* what main holds after some flats: the symbol table, the flats, their maps,
\* what was emitted for them, and why it stopped
Generated(tbl, flats, maps, out, err) ==
  [err |-> err, out |-> out, flats |-> flats, table |-> tbl, maps |-> maps]

\* what reading the Type of a field that has none does: the program dies, or
\* it reads something and goes on
NullReads == {"dies", "goes on"}

\* main: for (auto& flt : flats) { ... make_object_map(*flt, packed) ... }, from flat k
RECURSIVE generate(_, _, _, _)
generate(g, k, act, ub) ==
  IF k > Len(g.flats) THEN g
  ELSE LET flt == g.flats[k]
       IN Let(make_object_map(flt, packed(act), g.table),
              LAMBDA m :
                Let(<<[g.table EXCEPT ![flt.t].size = FixedSize(m.position, packed(act))],
                      [g.flats EXCEPT ![k].fields = m.fields]>>,
                    LAMBDA n :
                      Let(emit(n[2][k], act, n[1], n[2]),
                          LAMBDA e :
                            Let(Generated(n[1], n[2],
                                          Append(g.maps, [entries |-> m.entries,
                                                          position |-> m.position]),
                                          Append(g.out, e), e.fault),
                                LAMBDA h :
                                  IF e.fault = "none" THEN generate(h, k + 1, act, ub)
                                  ELSE IF e.fault = "null Type read" /\ ub = "goes on"
                                       THEN generate([h EXCEPT !.err = "none"], k + 1, act, ub)
                                  ELSE h))))

\* the schemas read: one or two declarations.  The first member x has any of
\* the types; after a char or an int32 more members and markers may follow.
Exprs ==
  {Named("char"), Named("int32"), Named("string"), Of("optional", Named("string")),
   Of("optional", Of("vector", Named("int32"))), Of("optional", Of("optional", Named("int32"))),
   Sicko, FixedOf(Named("string"), 2), Dim(Named("int32"), TwoTo16 + 2)}
  \cup UNION {{Named(n), Of("optional", Named(n)), Of("vector", Named(n)),
               FixedOf(Named(n), 2), Dim(Named(n), 2)} : n \in Names}
Tails ==
  {<<FieldItem("y", Named("int32"))>>, <<FieldItem("x", Named("int32"))>>,
   <<Marker("delete", "x")>>, <<Marker("deprecate", "x")>>, <<Marker("delete", "y")>>,
   <<Marker("delete", "x"), FieldItem("y", Named("char"))>>}
Bodies ==
  {<<FieldItem("x", e)>> : e \in Exprs}
  \cup {<<FieldItem("x", Named(n))>> \o tl : n \in {"char", "int32"}, tl \in Tails}
Decls ==
  {Decl(n, id, b) : n \in Names, id \in {"flat", "variant"}, b \in Bodies}
  \cup {Decl("int32", "flat", <<FieldItem("x", Named("char"))>>)}
MaxDecls == Cardinality(Names)
Schemas == UNION {[1 .. k -> Decls] : k \in 1 .. MaxDecls}

\* the parser before it has read anything of schema
PsInit(schema) ==
  [err |-> "none", pos |-> 0, out |-> <<>>, flats |-> <<>>, table |-> symbol_table, act |-> "",
   maps |-> <<>>, schema |-> schema, phase |-> "parse"]

\* parse(): one turn of the loop, reading the next declaration
ParseDecl ==
  /\ ps.phase = "parse"
  /\ ps.err = "none"
  /\ ps.pos < Len(ps.schema)
  /\ \E after \in (IF ps.pos + 1 < Len(ps.schema) THEN {"more"} ELSE Follows \ {"more"}) :
       \E r \in {parse(Parsed(ps.table, ps.flats, "none"), ps.schema[ps.pos + 1], after)} :
          ps' = [ps EXCEPT !.pos = ps.pos + 1, !.table = r.table, !.flats = r.flats,
                           !.err = r.err]
  /\ UNCHANGED <<mem, fault, last, steps, fv, opt, msg, dst>>

\* parse(): if (n == "end") break; check_for_undefined(); return flats
EndParse ==
  /\ ps.phase = "parse"
  /\ ps.err = "none"
  /\ ps.pos = Len(ps.schema)
  /\ ps' = [ps EXCEPT !.phase = "parsed", !.err = check_for_undefined(ps.table)]
  /\ UNCHANGED <<mem, fault, last, steps, fv, opt, msg, dst>>

\* main: the loop over the flats under the action selected by the command;
\* the phase is "done" after the last flat and "stopped" when the program
\* ended before
Generate ==
  /\ ps.phase = "parsed"
  /\ ps.err = "none"
  /\ \E act \in Acts, ub \in NullReads :
       \E g \in {generate(Generated(ps.table, ps.flats, <<>>, <<>>, "none"), 1, act, ub)} :
          ps' = [ps EXCEPT !.phase = IF g.err = "none" THEN "done" ELSE "stopped",
                            !.act = act, !.table = g.table,
                            !.flats = g.flats, !.maps = g.maps, !.out = g.out,
                            !.err = g.err]
  /\ UNCHANGED <<mem, fault, last, steps, fv, opt, msg, dst>>

InitParser ==
  /\ mem = FreshMessage
  /\ fault = "none"
  /\ last = NoOp
  /\ steps = 0
  /\ fv = FvInit
  /\ opt = OptInit
  /\ msg = MsgInit
  /\ dst = Zeroed
  /\ \E schema \in Schemas : ps = PsInit(schema)
NextParser == ParseDecl \/ EndParse \/ Generate
SpecParser == InitParser /\ [][NextParser]_vars

\* the schemas with a view or a message: a flat or variant, then  n : view of fn,
\* n : view of fn { names }  or  n : message of fn
Selections == {<<>>, <<"x">>, <<"y">>, <<"x", "y">>, <<"y", "x">>, <<"z">>}
ViewBodies ==
  {<<Marker("of", fn)>> : fn \in Names}
  \cup {<<Marker("of", fn), Marker("{", "")>> \o [i \in 1 .. Len(sel) |-> Marker("member", sel[i])] :
          fn \in Names, sel \in Selections}
ViewDecls ==
  {Decl(n, "view", b) : n \in Names, b \in ViewBodies}
  \cup {Decl(n, "message", <<Marker("of", fn)>>) : n \in Names, fn \in Names}
ViewSchemas ==
  {<<d>> : d \in ViewDecls} \cup {<<d, v>> : d \in Decls, v \in ViewDecls}

InitViews ==
  /\ mem = FreshMessage
  /\ fault = "none"
  /\ last = NoOp
  /\ steps = 0
  /\ fv = FvInit
  /\ opt = OptInit
  /\ msg = MsgInit
  /\ dst = Zeroed
  /\ \E schema \in ViewSchemas : ps = PsInit(schema)
SpecViews == InitViews /\ [][NextParser]_vars

\* make_object_map's switch (fld.status): the fields that get an entry
Live(fld) == fld.status \notin {"deleting", "deprecating", "deleted"}

\* the entries of the k-th flat's object map made for the field with this index
EntriesOf(k, index) ==
  {ps.maps[k].entries[j] : j \in {i \in 1 .. Len(ps.maps[k].entries) :
                                   ps.maps[k].entries[i].index = index}}

\* C12: for every non-packed flat and every live field, the offset recorded
\* for the field (Field.offset and its Field_entry.offset) is a multiple of the
\* alignment of the field's type.
C12_OffsetAligned ==
  ps.phase = "done" =>
    \A k \in 1 .. Len(ps.flats) :
      ~packed(ps.act) =>
        \A i \in 1 .. Len(ps.flats[k].fields) :
          LET fld == ps.flats[k].fields[i]
          IN Live(fld) =>
               /\ fld.offset % TAlign(ps.table, fld.typ[1]) = 0
               /\ \A e \in EntriesOf(k, fld.index) :
                    e.offset % TAlign(ps.table, fld.typ[1]) = 0

\* the least multiple of a that is >= p
RoundUp(p, a) == ((p + a - 1) \div a) * a

\* C13: for a non-packed flat the fixed size is the position after the last
\* field rounded up to alignof(Flat), the least multiple of alignof(Flat) that
\* is >= that position; for  flat { x:int32 y:int32 }  the fixed size is 8 and
\* the offset of y is 4.
C13_FixedSizeRounded ==
  ps.phase = "done" =>
    \A k \in 1 .. Len(ps.flats) :
      ~packed(ps.act) =>
        /\ ps.table[ps.flats[k].name].size = RoundUp(ps.maps[k].position, AlignofFlat)
        /\ (/\ ps.flats[k].id = "flat"
            /\ ps.schema[k].body = <<FieldItem("x", Named("int32")),
                                     FieldItem("y", Named("int32"))>>)
           => /\ ps.table[ps.flats[k].name].size = 2 * SizeofInt32
              /\ ps.flats[k].fields[2].offset = SizeofInt32

\* C14: for a flat compiled under the packed or packed_view action,
\* offset[i+1] = offset[i] + size[i] for all adjacent live fields and the
\* fixed size ends with the last live field (no padding after it).
C14_PackedLayout ==
  (ps.phase = "done" /\ ps.act \in {"packed", "packed_view"}) =>
    \A k \in 1 .. Len(ps.flats) :
      ps.flats[k].id = "flat" =>
        LET live == SelectSeq(ps.flats[k].fields, Live)
        IN /\ \A i \in 1 .. Len(live) - 1 :
                live[i + 1].offset = live[i].offset + live[i].size
           /\ ps.table[ps.flats[k].name].size =
                IF live = <<>> THEN 0
                ELSE live[Len(live)].offset + live[Len(live)].size

\* body b is the beginning of body c
IsPrefix(b, c) == Len(b) <= Len(c) /\ SubSeq(c, 1, Len(b)) = b

\* C15: each field's index is its 0-based place in the flat's declaration
\* list, markers counted; a later declaration or marker does not change it
\* (a flat whose body extends another flat's body gives the common members the
\* same index); after the object map is made every entry carries the index and
\* name of one live field, every live field has one entry and the others none.
C15_OrdinalStable ==
  \A k \in 1 .. Len(ps.flats) :
    LET fields == ps.flats[k].fields
    IN /\ \A i \in 1 .. Len(fields) : fields[i].index = i - 1
       /\ \A j \in 1 .. Len(ps.flats) :
            IsPrefix(ps.schema[j].body, ps.schema[k].body) =>
              \A i \in 1 .. Len(ps.flats[j].fields) :
                /\ fields[i].name = ps.flats[j].fields[i].name
                /\ fields[i].index = ps.flats[j].fields[i].index
       /\ ps.phase = "done" =>
            /\ \A i \in 1 .. Len(fields) :
                 Cardinality(EntriesOf(k, fields[i].index)) = IF Live(fields[i]) THEN 1 ELSE 0
            /\ \A j \in 1 .. Len(ps.maps[k].entries) :
                 LET e == ps.maps[k].entries[j]
                 IN /\ e.index \in 0 .. Len(fields) - 1
                    /\ Live(fields[e.index + 1])
                    /\ fields[e.index + 1].name = e.name

\* a flat  { x  delete x  y }  next to the flat { x } it extends: y keeps index 2
\* and is the only entry of the map
C15_Witness ==
  /\ ps.phase = "done"
  /\ \E j, k \in 1 .. Len(ps.flats) :
       /\ Len(ps.schema[j].body) = 1
       /\ Len(ps.schema[k].body) = 3
       /\ IsPrefix(ps.schema[j].body, ps.schema[k].body)
       /\ ps.flats[k].fields[1].status = "deleted"
       /\ ps.flats[k].fields[2].status = "deleting"
       /\ Len(ps.maps[k].entries) = 1
       /\ ps.maps[k].entries[1].index = 2
       /\ ps.maps[k].entries[1].name = "y"

\* a body declares a member name twice
DeclaredTwice(body) ==
  \E i, j \in 1 .. Len(body) :
    i < j /\ body[i].op = "field" /\ body[j].op = "field" /\ body[i].name = body[j].name

\* C16: no two entries of the field list of an accepted flat or variant have
\* the same name, and a body that declares a name already in the list is not
\* accepted.
C16_UniqueNames ==
  /\ \A k \in 1 .. Len(ps.flats) :
       \A i, j \in 1 .. Len(ps.flats[k].fields) :
         i < j => ps.flats[k].fields[i].name # ps.flats[k].fields[j].name
  /\ \A k \in 1 .. ps.pos :
       DeclaredTwice(ps.schema[k].body) => (k > Len(ps.flats) /\ ps.err # "none")

\* the names a type expression mentions
RECURSIVE Mentions(_)
Mentions(e) == {e.head} \cup (IF e.of = <<>> THEN {} ELSE Mentions(e.of[1]))

\* the names the members of a body mention
BodyMentions(body) ==
  UNION {Mentions(body[i].ty) : i \in {j \in 1 .. Len(body) : body[j].op = "field"}}

\* how far an entry is: 0 absent, 1 undefined placeholder, 2 defined
Rank(entry) == IF entry.id = "absent" THEN 0 ELSE IF entry.id = "undefined" THEN 1 ELSE 2

RECURSIVE ParseAll(_, _, _)
ParseAll(p, schema, k) ==
  IF k > Len(schema) \/ p.err # "none" THEN p
  ELSE Let(parse(p, schema[k], IF k < Len(schema) THEN "more" ELSE "end"),
           LAMBDA q : ParseAll(q, schema, k + 1))

\* main for the input schema and the action act: the error, the symbol table
\* and the flats it ends with
Compile(schema, act) ==
  Let(ParseAll(Parsed(symbol_table, <<>>, "none"), schema, 1),
      LAMBDA p :
        IF p.err # "none" THEN <<p.err, p.table, p.flats>>
        ELSE IF check_for_undefined(p.table) # "none"
             THEN <<check_for_undefined(p.table), p.table, p.flats>>
        ELSE Let(generate(Generated(p.table, p.flats, <<>>, <<>>, "none"), 1, act, "goes on"),
                 LAMBDA g : <<"none", g.table, g.flats>>))

\* what the generators read of a compiled schema: the flats with their fields
\* (normalised type, index, status, size, offset) and for every name its kind,
\* fixed size and used_as_optional
IR(tbl, flats) ==
  <<{flats[k] : k \in 1 .. Len(flats)},
    [n \in Names |-> <<tbl[n].id, tbl[n].size, tbl[n].used_as_optional>>]>>

\* the first declaration uses the name the second defines, and the second
\* uses neither name: swapping them puts every definition before its uses
ForwardReference(schema) ==
  /\ Len(schema) = 2
  /\ schema[1].name # schema[2].name
  /\ schema[2].name \in BodyMentions(schema[1].body)
  /\ schema[1].name \notin BodyMentions(schema[1].body)
  /\ BodyMentions(schema[2].body) \cap Names = {}

\* C18: a schema that uses a flat or variant name before its definition, and
\* that compiles when the definition is put first, parses successfully and
\* gives the same IR (field types after normalisation, used_as_optional flags,
\* field sizes and offsets) as the reordered schema.
C18_ForwardReference ==
  (/\ ForwardReference(ps.schema)
   /\ ps.err # "none" \/ ps.phase = "done") =>
     \A act \in (IF ps.phase = "done" THEN {ps.act} ELSE Acts) :
       LET r == Compile(<<ps.schema[2], ps.schema[1]>>, act)
       IN r[1] = "none" =>
            /\ ps.err = "none"
            /\ IR(ps.table, ps.flats) = IR(r[2], r[3])

\* the Type, or a Type it is made of, is a vector or fixed_vector whose element
\* is the entry of a name in vs
RECURSIVE VectorOf(_, _)
VectorOf(ty, vs) ==
  /\ ty.t # <<>>
  /\ \/ ty.id \in {"vector", "varray"} /\ ty.t[1].id = "entry" /\ ty.t[1].name \in vs
     \/ VectorOf(ty.t[1], vs)

\* the variants the schema declares
Variants(schema) == {schema[k].name : k \in {j \in 1 .. Len(schema) : schema[j].id = "variant"}}

\* C19: a schema in which a member is a vector<V> or a fixed_vector<V, N> of a
\* variant V of the schema, declared before or after the member, is rejected
\* by the parser: no parse that ends without error holds such a member.
C19_VectorOfVariant ==
  (ps.phase # "parse" /\ ps.err = "none") =>
    \A k \in 1 .. Len(ps.flats) :
      \A i \in 1 .. Len(ps.flats[k].fields) :
        LET fld == ps.flats[k].fields[i]
        IN fld.typ # <<>> => ~VectorOf(fld.typ[1], Variants(ps.schema))

\* the Type, or a Type it is made of, is an optional whose element is an
\* optional, a variant, a vector or a string
RECURSIVE OptionalKept(_, _)
OptionalKept(ty, tbl) ==
  /\ ty.t # <<>>
  /\ \/ /\ ty.id = "optional"
        /\ TId(tbl, ty.t[1]) \in {"optional", "variant", "vector", "string"}
     \/ OptionalKept(ty.t[1], tbl)

\* the Type is an array of 30 slots, each an array of 20 vectors
Is30Of20Vectors(ty) ==
  /\ ty.id = "array"
  /\ ty.count = 30
  /\ ty.t[1].id = "array"
  /\ ty.t[1].count = 20
  /\ ty.t[1].t[1].id = "vector"

\* C20: in a schema that parses, no member type holds an optional around an
\* optional, a variant, a vector or a string (optional<X> is X itself for
\* these), and the type of a member declared as
\* optional<vector<int32[10]>[20]>[30] is an array of 30 slots each holding
\* 20 vector slots, without optional.
C20_OptionalCollapses ==
  (ps.phase # "parse" /\ ps.err = "none") =>
    \A k \in 1 .. Len(ps.flats) :
      \A i \in 1 .. Len(ps.flats[k].fields) :
        LET fld == ps.flats[k].fields[i]
        IN fld.typ # <<>> =>
             /\ ~OptionalKept(fld.typ[1], ps.table)
             /\ ps.schema[k].body[i].ty = Sicko => Is30Of20Vectors(fld.typ[1])

(***************************************************************************)
(* Enumerations: get_enumeration and get_enumerator.  The text between the *)
(* braces is a list of enumerators  name  or  name : number;  explicit is  *)
(* <<>> without a number, <<x>> with the number x.  The parser holds its   *)
(* position in that list and the fields read so far in ps.                 *)
(***************************************************************************)
\* an enumerator of the text
EnumItem(n, explicit) == [name |-> n, explicit |-> explicit]

\* Field{n, nullptr, x}
Enumerator(n, x) == [name |-> n, value |-> x]

\* int + 1: the values the addition can leave in x, none when it traps.
\* Past INT_MAX the addition is undefined: it wraps or it traps.
PlusOne(x) == IF x < IntMax THEN {x + 1} ELSE {-IntMax - 1}
PlusOneTraps(x) == x = IntMax

\* Field get_enumerator(Flat* flt): the fields it can return
get_enumerator(fields, e) ==
  IF e.explicit # <<>> THEN {Enumerator(e.name, e.explicit[1])}
  ELSE IF Len(fields) # 0
       THEN {Enumerator(e.name, x) : x \in PlusOne(fields[Len(fields)].value)}
       ELSE {Enumerator(e.name, 0)}

\* the numbers written in the text, and the texts read
EnumNames == <<"a", "b", "c">>
MaxEnumerators == Len(EnumNames)
EnumNumbers == {0, 5, 6, IntMax - 1, IntMax}
EnumTexts ==
  UNION {{[i \in 1 .. k |-> EnumItem(EnumNames[i], x[i])] :
            x \in [1 .. k -> {<<>>} \cup {<<v>> : v \in EnumNumbers}]} :
         k \in 0 .. MaxEnumerators}

EnumInit(text) == [err |-> "none", pos |-> 0, fields |-> <<>>, phase |-> "enum", text |-> text]

\* get_enumeration: one turn of  while (!is_char('}'))
GetEnumerator ==
  /\ ps.phase = "enum"
  /\ ps.err = "none"
  /\ ps.pos < Len(ps.text)
  /\ \/ \E fld \in get_enumerator(ps.fields, ps.text[ps.pos + 1]) :
          ps' = [ps EXCEPT !.pos = ps.pos + 1, !.fields = Append(ps.fields, fld)]
     \/ /\ ps.text[ps.pos + 1].explicit = <<>>
        /\ Len(ps.fields) # 0
        /\ PlusOneTraps(ps.fields[Len(ps.fields)].value)
        /\ ps' = [ps EXCEPT !.pos = ps.pos + 1, !.err = "signed overflow"]
  /\ UNCHANGED <<mem, fault, last, steps, fv, opt, msg, dst>>

\* get_enumeration: is_char('}'); return flt
EndEnumeration ==
  /\ ps.phase = "enum"
  /\ ps.err = "none"
  /\ ps.pos = Len(ps.text)
  /\ ps' = [ps EXCEPT !.phase = "enumeration"]
  /\ UNCHANGED <<mem, fault, last, steps, fv, opt, msg, dst>>

InitEnum ==
  /\ mem = FreshMessage
  /\ fault = "none"
  /\ last = NoOp
  /\ steps = 0
  /\ fv = FvInit
  /\ opt = OptInit
  /\ msg = MsgInit
  /\ dst = Zeroed
  /\ \E text \in EnumTexts : ps = EnumInit(text)
NextEnum == GetEnumerator \/ EndEnumeration
SpecEnum == InitEnum /\ [][NextEnum]_vars

\* C21: in an enumeration every enumerator with ": value" has that value,
\* the first enumerator without one has 0, and every other enumerator
\* without one has the value of its predecessor plus one.
C21_EnumeratorValues ==
  \A i \in 1 .. Len(ps.fields) :
    LET e == ps.text[i]
        x == ps.fields[i].value
    IN IF e.explicit # <<>> THEN x = e.explicit[1]
       ELSE IF i = 1 THEN x = 0
       ELSE /\ ps.fields[i - 1].value < IntMax
            /\ x = ps.fields[i - 1].value + 1

(***************************************************************************)
(* Views and messages                                                      *)
(***************************************************************************)
\* the k-th declaration is  n : view of fn  without braces, and its Flat exists
CompleteView(k) ==
  /\ k <= Len(ps.flats)
  /\ ps.schema[k].id = "view"
  /\ Len(ps.schema[k].body) = 1

\* the k-th declaration is  n : view of fn { names }, and its Flat exists
PartialView(k) ==
  /\ k <= Len(ps.flats)
  /\ ps.schema[k].id = "view"
  /\ Len(ps.schema[k].body) > 1

\* the names of the live fields of a field list, in order
LiveNames(fields) ==
  LET live == {i \in 1 .. Len(fields) : Live(fields[i])}
      nth(j) == CHOOSE i \in live : Cardinality({h \in live : h < i}) = j - 1
  IN [j \in 1 .. Cardinality(live) |-> fields[nth(j)].name]

\* C22: a view declared without a body refers to the flat it is a view of, and
\* its view accessor has one getter per live field of that flat, in order.
C22_CompleteView ==
  \A k \in 1 .. Len(ps.schema) :
    CompleteView(k) =>
      LET fn == ps.schema[k].body[1].name
      IN /\ ps.flats[k].t = fn
         /\ (ps.phase = "done" /\ ps.act \in {"view", "packed_view"}) =>
              [j \in 1 .. Len(ps.out[k].getters) |-> ps.out[k].getters[j].name]
                = LiveNames(FlatOf(ps.flats, fn).fields)

\* C23: in a view with a list of names every getter reads the slot of the
\* offset table that is the index of the field in the flat, and two getters
\* of different fields never read the same slot.
C23_PartialViewIndex ==
  (ps.phase = "done" /\ ps.act \in {"view", "packed_view"}) =>
    \A k \in 1 .. Len(ps.schema) :
      PartialView(k) =>
        LET under == FlatOf(ps.flats, ps.schema[k].body[1].name).fields
            gs == ps.out[k].getters
        IN /\ \A j \in 1 .. Len(gs) : gs[j].index = under[FindField(under, gs[j].name)].index
           /\ \A i, j \in 1 .. Len(gs) : gs[i].name # gs[j].name => gs[i].index # gs[j].index

\* C28: after the maps are made, every flat has the fixed size that its own
\* layout pass computed from the position behind its last field: the pass
\* over a message or a view did not change it.
C28_MapFrame ==
  ps.phase = "done" =>
    \A k \in 1 .. Len(ps.flats) :
      ps.flats[k].id = "flat" =>
        ps.table[ps.flats[k].name].size = FixedSize(ps.maps[k].position, packed(ps.act))

(***************************************************************************)
(* End of input, sizes of composite types, and the emitters                *)
(***************************************************************************)
\* the declarations of schema followed by the word end are parsed without error
WellFormed(schema) ==
  \E p \in {ParseAll(Parsed(symbol_table, <<>>, "none"), schema, 1)} :
    p.err = "none" /\ check_for_undefined(p.table) = "none"

\* C25: for declarations that are parsed without error when the word end
\* follows them, parse() does not fail on the end of the input either.
C25_EndOfInput ==
  WellFormed(ps.schema) => ps.err # "unexpected end of input"

\* C26: the size the layout pass uses for a field of type T[N] is N times
\* the final size of T, for fixed_vector<T, N> it is align(T) plus N times the
\* final size of T, and for optional<T> it is align(T) plus the final size of T.
C26_CompositeSizes ==
  ps.phase = "done" =>
    \A k \in 1 .. Len(ps.flats) :
      \A i \in 1 .. Len(ps.flats[k].fields) :
        LET fld == ps.flats[k].fields[i]
            e == ps.schema[k].body[i].ty
        IN (Live(fld) /\ fld.typ # <<>>) =>
             LET tp == fld.typ[1]
                 inner == tp.t[1]
             IN /\ e.dims # <<>> =>
                     fld.size = e.dims[Len(e.dims)] * TSize(ps.table, inner)
                /\ (e.dims = <<>> /\ e.head = "fixed_vector") =>
                     fld.size = TAlign(ps.table, inner) + e.n * TSize(ps.table, inner)
                /\ (e.dims = <<>> /\ tp.id = "optional") =>
                     fld.size = TAlign(ps.table, inner) + TSize(ps.table, inner)

\* a type holds a string or a vector, directly or through optional, array,
\* fixed_vector, variant and flat members
RECURSIVE Holds(_, _, _, _)
Holds(ty, tbl, flats, seen) ==
  IF ty = <<>> THEN FALSE
  ELSE LET t == ty[1]
           k == TId(tbl, t)
       IN IF k \in {"string", "vector"} THEN TRUE
          ELSE IF k \in {"optional", "array", "varray"} THEN Holds(t.t, tbl, flats, seen)
          ELSE IF k \in {"flat", "variant"} /\ t.name \notin seen
               THEN \E i \in 1 .. Len(FlatOf(flats, t.name).fields) :
                      Holds(FlatOf(flats, t.name).fields[i].typ, tbl, flats,
                            seen \cup {t.name})
          ELSE FALSE

\* the k-th flat was given to the direct emitter, which finished with it
Emitted_direct(k) ==
  /\ ps.phase \in {"done", "stopped"}
  /\ ps.act \in {"direct", "packed"}
  /\ k <= Len(ps.out)
  /\ ps.flats[k].id = "flat"
  /\ ps.out[k].fault = "none"

\* C24: the direct accessor of a flat declares allo exactly when some field
\* of the flat transitively holds a string or a vector, and it declares allo
\* whenever one of its getters or setters names allo.
C24_NeedsAllocator ==
  \A k \in 1 .. Len(ps.flats) :
    Emitted_direct(k) =>
      /\ (ps.out[k].allo = "true")
           <=> Holds(<<Entry(ps.flats[k].name)>>, ps.table, ps.flats, {})
      /\ ps.out[k].mentions # {} => ps.out[k].allo = "true"

\* C29: needs_allocator returns for every flat of every schema parse() accepts.
C29_NeedsAllocatorReturns ==
  \A k \in 1 .. Len(ps.out) : ps.out[k].fault # "no return"

\* C30: the layout pass and the emitters read the Type of a field only if the
\* field has one.
C30_TombstoneSkipped ==
  \A k \in 1 .. Len(ps.out) :
    /\ \A i \in ps.out[k].reads : ps.flats[k].fields[i].typ # <<>>
    /\ \A j \in 1 .. Len(ps.maps[k].entries) :
         ps.flats[k].fields[ps.maps[k].entries[j].index + 1].typ # <<>>

====
